---- MODULE Spec2Model ----
(***************************************************************************)
(* staramr: BlastResultsParser.parse_results and _handle_blast_hit         *)
(* (src/staramr/blast/results/BlastResultsParser.py).                      *)
(*                                                                         *)
(* The parser walks file_blast_map (input file -> database -> BLAST        *)
(* output), opens every BLAST output, and for every BLAST record creates   *)
(* a fresh BlastHitPartitions, appends the hits that pass the thresholds,  *)
(* sorts every partition and hands the best hit (or all hits) to           *)
(* _append_results_to.  After the databases of a file it writes the        *)
(* collected sequence records.                                             *)
(*                                                                         *)
(* Percentages are modelled as integers (percent points); comparisons are  *)
(* the code's comparisons.  The contents of the BLAST outputs are read as  *)
(* the parse reaches them: each step that reads input draws it from the    *)
(* bounded sets below.                                                     *)
(***************************************************************************)
EXTENDS Integers, Sequences, FiniteSets, TLC

(* ---------------------------------------------------------------- bounds *)

\* Total number of HSPs read during one parse_results invocation.
MaxHsps == 3

\* Total number of BLAST records read during one parse_results invocation.
MaxRecords == 2
\* Files named on one search command line.
MaxFiles == 2

(* ------------------------------------------------------ input universes *)

None == "None"

Contigs == {"contig1", "contig2"}

\* Query intervals [start, end]: two overlapping ones and one that only the
\* second bridges to the first.
Intervals == {<<10, 100>>, <<50, 150>>, <<150, 200>>}

AlignLens == {90, 100}

Pcts == {98, 99, 100}

\* A raw HSP as the BLAST output carries it.
RawHsp(c, iv, al, p, pl) ==
    [contig |-> c, start |-> iv[1], end |-> iv[2], alen |-> al, pid |-> p, plength |-> pl]

\* The alignment length BLAST reports for an HSP on a query interval (the
\* scenario of the two overlapping hits: 90 on [10,100], 100 on [50,150]).
AlenOf(iv) == IF iv = <<10, 100>> THEN 90 ELSE IF iv = <<50, 150>> THEN 100 ELSE 50

\* Families of parser inputs.  In each family some attributes of the HSPs
\* vary over their whole set and the others are fixed; `files' and `dbs' are
\* the keys of file_blast_map in iteration order.
\*   1. percent identity and percent length around the thresholds;
\*   2. the three components of the sort key, all hits overlapping (without
\*      the greatest and the least key, which every component orders alike);
\*   3. query intervals, passing and failing hits;
\*   4. several files, databases and contigs, output_dir set or unset.
InputFamilies ==
    { [files |-> <<"f1">>, dbs |-> <<"d1">>, pidt |-> 99, plent |-> 99, outs |-> {"out"},
       hsps |-> {RawHsp("contig1", <<10, 100>>, 100, p, pl) : p \in Pcts, pl \in Pcts}] }
    \cup
    { [files |-> <<"f1">>, dbs |-> <<"d1">>, pidt |-> 98, plent |-> 98, outs |-> {"out"},
       hsps |-> {RawHsp("contig1", <<10, 100>>, al, p, pl) :
                    al \in AlignLens, p \in {99, 100}, pl \in {99, 100}}
                \ {RawHsp("contig1", <<10, 100>>, 100, 100, 100),
                    RawHsp("contig1", <<10, 100>>, 90, 99, 99)}] }
    \cup
    { [files |-> <<"f1">>, dbs |-> <<"d1">>, pidt |-> 98, plent |-> 98, outs |-> {"out"},
       hsps |-> {RawHsp("contig1", iv, AlenOf(iv), p, 100) :
                    iv \in Intervals, p \in {98, 100}}] }
    \cup
    { [files |-> <<"f1", "f2">>, dbs |-> <<"d1", "d2">>, pidt |-> 98, plent |-> 98,
       outs |-> {None, "out"},
       hsps |-> {RawHsp(c, <<10, 100>>, 100, p, 100) : c \in Contigs, p \in {98, 100}}] }

(* ----------------------------------------------------------------- state *)

VARIABLES
    files,              \* keys of file_blast_map, in iteration order
    dbs,                \* keys of file_blast_map[file], in iteration order
    hsp_space,          \* the HSPs the BLAST outputs may hold
    pid_threshold,      \* self._pid_threshold
    plength_threshold,  \* self._plength_threshold
    report_all,         \* self._report_all
    output_dir,         \* self._output_dir
    pc,                 \* position in parse_results / _handle_blast_hit
    fi,                 \* index of the current file
    di,                 \* index of the current database
    results,            \* results
    hit_seq_records,    \* hit_seq_records of the current file
    partitions,         \* the BlastHitPartitions of the current record
    blast_handle,       \* state of the handle opened by _handle_blast_hit
    written,            \* calls of Bio.SeqIO.write, in order
    rec_hits,           \* hits created from the current record, in order
    calls,              \* hits passed to _append_results_to for this record
    opened,             \* (file, database) pairs whose output was opened
    absent,             \* the (file, database) pair found absent, or None
    open_handles,       \* handles opened and not closed
    nhsps,              \* HSPs read so far
    nrecs               \* records read so far

\* Search.run (src/staramr/subcommand/Search.py)
VARIABLES
    s_args,             \* args, as parsed from the command line
    s_pc,               \* position in Search.run
    s_out,              \* the locals hits_output_dir, output_*, to_stdout
    s_dirs,             \* directories created and not removed
    s_detect,           \* run_amr_detection: "none", "started", "finished"
    s_settings,         \* whether the local `settings' is bound
    s_written,          \* outputs written: file names, or "stdout"
    s_error             \* the exception that left run, or None

svars == <<s_args, s_pc, s_out, s_dirs, s_detect, s_settings, s_written, s_error>>

pvars == <<files, dbs, hsp_space, pid_threshold, plength_threshold, report_all,
           output_dir, pc, fi, di, results, hit_seq_records, partitions,
           blast_handle, written, rec_hits, calls, opened, absent,
           open_handles, nhsps, nrecs>>

vars == <<pvars, svars>>

\* What no step of parse_results changes.
config == <<files, dbs, hsp_space, pid_threshold, plength_threshold, report_all,
            output_dir, svars>>

(* ------------------------------------------------------------- helpers *)

\* _create_hit(file, database_name, blast_record, alignment, hsp)
CreateHit(id, file, db, raw) ==
    [id |-> id, file |-> file, db |-> db, contig |-> raw.contig,
     start |-> raw.start, end |-> raw.end, alen |-> raw.alen,
     pid |-> raw.pid, plength |-> raw.plength]

\* hit.get_pid() > self._pid_threshold and hit.get_plength() > self._plength_threshold
PassesGe(hit, pidt, plent) ==
    hit.pid >= pidt /\ hit.plength >= plent

PassesAlways(hit, pidt, plent) ==
    TRUE

PassesThresholds(hit, pidt, plent) ==
    hit.pid > pidt /\ hit.plength > plent

\* BlastHitPartitions: a list of clusters, each with its contig, its bounding
\* interval and its hits.
EmptyPartitions == <<>>

Min(a, b) == IF a <= b THEN a ELSE b

Max(a, b) == IF a >= b THEN a ELSE b

HitInPartition(hit, cluster) ==
    /\ hit.contig = cluster.contig
    /\ hit.start <= cluster.end
    /\ hit.end >= cluster.start

RECURSIVE MergeClusters(_, _)
MergeClusters(cs, acc) ==
    IF cs = <<>> THEN acc
    ELSE MergeClusters(Tail(cs),
            [contig |-> acc.contig,
             start |-> Min(acc.start, Head(cs).start),
             end |-> Max(acc.end, Head(cs).end),
             hits |-> Head(cs).hits \o acc.hits])

\* A partitioner that puts the hit into the first cluster it overlaps and
\* merges nothing.
PartitionsAppendFirstMatch(parts, hit) ==
    LET idx == {i \in DOMAIN parts : HitInPartition(hit, parts[i])}
    IN  IF idx = {}
        THEN Append(parts, [contig |-> hit.contig, start |-> hit.start,
                            end |-> hit.end, hits |-> <<hit>>])
        ELSE LET i == CHOOSE j \in idx : \A k \in idx : j <= k
             IN  [parts EXCEPT ![i] = [contig |-> parts[i].contig,
                                       start |-> Min(parts[i].start, hit.start),
                                       end |-> Max(parts[i].end, hit.end),
                                       hits |-> Append(parts[i].hits, hit)]]

\* BlastHitPartitions.append(hit): the hit and every cluster it overlaps
\* become one cluster; the other clusters stay.
PartitionsAppend(parts, hit) ==
    LET over == SelectSeq(parts, LAMBDA c : HitInPartition(hit, c))
        rest == SelectSeq(parts, LAMBDA c : ~HitInPartition(hit, c))
        single == [contig |-> hit.contig, start |-> hit.start, end |-> hit.end,
                   hits |-> <<hit>>]
        Rev[i \in 0..Len(over)] ==
            IF i = 0 THEN <<>> ELSE <<over[i]>> \o Rev[i - 1]
    IN  Append(rest, MergeClusters(Rev[Len(over)], single))

\* BlastHitPartitions.get_hits_nonoverlapping_regions()
GetHitsNonoverlappingRegions(parts) ==
    [i \in DOMAIN parts |-> parts[i].hits]

\* key=lambda x: (x.get_alignment_length(), x.get_pid(), x.get_plength())
KeyGreater(a, b) ==
    \/ a.alen > b.alen
    \/ a.alen = b.alen /\ a.pid > b.pid
    \/ a.alen = b.alen /\ a.pid = b.pid /\ a.plength > b.plength

KeyLess(a, b) == KeyGreater(b, a)

RECURSIVE InsertDesc(_, _)
InsertDesc(x, s) ==
    IF s = <<>> THEN <<x>>
    ELSE IF KeyGreater(x, Head(s)) THEN <<x>> \o s
    ELSE <<Head(s)>> \o InsertDesc(x, Tail(s))

RECURSIVE InsertAsc(_, _)
InsertAsc(x, s) ==
    IF s = <<>> THEN <<x>>
    ELSE IF KeyLess(x, Head(s)) THEN <<x>> \o s
    ELSE <<Head(s)>> \o InsertAsc(x, Tail(s))

RECURSIVE SortAscAcc(_, _)
SortAscAcc(s, acc) ==
    IF s = <<>> THEN acc ELSE SortAscAcc(Tail(s), InsertAsc(Head(s), acc))

SortAsc(s) == SortAscAcc(s, <<>>)

RECURSIVE SortDescAcc(_, _)
SortDescAcc(s, acc) ==
    IF s = <<>> THEN acc ELSE SortDescAcc(Tail(s), InsertDesc(Head(s), acc))

\* hits_non_overlapping.sort(key=..., reverse=True): stable, descending
SortDesc(s) == SortDescAcc(s, <<>>)

\* The hits of one cluster handed to _append_results_to, in order.
SelectFirstUnsorted(hits, all) ==
    IF Len(hits) >= 1
    THEN IF all THEN SortDesc(hits) ELSE <<hits[1]>>
    ELSE <<>>

SelectHits(hits, all) ==
    IF Len(hits) >= 1
    THEN IF all THEN SortDesc(hits) ELSE <<SortDesc(hits)[1]>>
    ELSE <<>>

\* hits_non_overlapping.sort(...) sorts the list it is handed in place.  When
\* the partitioner hands out its own lists (shared) every cluster is left
\* sorted; when it hands out copies the clusters stay as they were.
PartitionsAfterSort(p, shared) ==
    IF shared
    THEN [i \in DOMAIN p |-> [p[i] EXCEPT !.hits = SortDesc(p[i].hits)]]
    ELSE p

RECURSIVE Emission(_, _)
\* for hits_non_overlapping in partitions.get_hits_nonoverlapping_regions(): ...
Emission(clusters, all) ==
    IF clusters = <<>> THEN <<>>
    ELSE SelectHits(Head(clusters), all) \o Emission(Tail(clusters), all)

\* The row a subclass appends to results for a hit.
ResultRow(hit, database_name) ==
    [isolate |-> hit.file, database |-> database_name, hit_id |-> hit.id,
     contig |-> hit.contig, start |-> hit.start, end |-> hit.end,
     alen |-> hit.alen, pid |-> hit.pid, plength |-> hit.plength]

\* SeqRecord(..., id=hit.get_hit_id(), description='isolate: ...')
SeqRecordOf(hit) ==
    [id |-> hit.id, isolate |-> hit.file, contig |-> hit.contig,
     contig_start |-> hit.start, contig_end |-> hit.end,
     alen |-> hit.alen, pid |-> hit.pid, plength |-> hit.plength]

Rows(hs, database_name) == [i \in DOMAIN hs |-> ResultRow(hs[i], database_name)]

SeqRecords(hs) == [i \in DOMAIN hs |-> SeqRecordOf(hs[i])]

\* _get_out_file_name(in_file)
GetOutFileName(file) == <<"hits", file>>

\* not os.path.exists(blast_out)
BlastOutIgnored(exists) == FALSE

BlastOutMissing(exists) == ~exists

\* The locals of Search.run before lines 222-228 set them.
NoOutputs ==
    [to_stdout |-> FALSE, hits_output_dir |-> None, output_summary |-> None,
     output_resfinder |-> None, output_pointfinder |-> None,
     output_excel |-> None, output_settings |-> None]

\* Search.run is not running.
SearchIdle ==
    /\ s_args = None
    /\ s_pc = "idle"
    /\ s_out = NoOutputs
    /\ s_dirs = {}
    /\ s_detect = "none"
    /\ s_settings = FALSE
    /\ s_written = {}
    /\ s_error = None

(* ------------------------------------------------------------------ Init *)

Init ==
    /\ \E fam \in InputFamilies :
        /\ files = fam.files
        /\ dbs = fam.dbs
        /\ hsp_space = fam.hsps
        /\ pid_threshold = fam.pidt
        /\ plength_threshold = fam.plent
        /\ output_dir \in fam.outs
    /\ report_all \in BOOLEAN
    /\ pc = "file"
    /\ fi = 0
    /\ di = 0
    /\ results = <<>>
    /\ hit_seq_records = <<>>
    /\ partitions = EmptyPartitions
    /\ blast_handle = "unopened"
    /\ written = <<>>
    /\ rec_hits = <<>>
    /\ calls = <<>>
    /\ opened = <<>>
    /\ absent = None
    /\ open_handles = 0
    /\ nhsps = 0
    /\ nrecs = 0
    /\ SearchIdle

(* --------------------------------------------------------- parse_results *)

\* for file in self._file_blast_map: ...; hit_seq_records = []
NextFileKeepRecords ==
    /\ pc = "file"
    /\ fi < Len(files)
    /\ fi' = fi + 1
    /\ di' = 0
    /\ pc' = "db"
    /\ UNCHANGED <<config, results, hit_seq_records, partitions, blast_handle, written,
                   rec_hits, calls, opened, absent, open_handles, nhsps, nrecs>>

NextFile ==
    /\ pc = "file"
    /\ fi < Len(files)
    /\ fi' = fi + 1
    /\ di' = 0
    /\ hit_seq_records' = <<>>
    /\ pc' = "db"
    /\ UNCHANGED <<config, results, partitions, blast_handle, written,
                   rec_hits, calls, opened, absent, open_handles, nhsps, nrecs>>

\* return self._create_data_frame(results)
ReturnDataFrame ==
    /\ pc = "file"
    /\ fi = Len(files)
    /\ pc' = "done"
    /\ UNCHANGED <<config, fi, di, results, hit_seq_records, partitions,
                   blast_handle, written, rec_hits, calls, opened, absent,
                   open_handles, nhsps, nrecs>>

\* An exception leaves parse_results: no table is returned and the locals of
\* parse_results and _handle_blast_hit are gone.  What stays is what was
\* written and the handle, which nothing closed.
Propagate ==
    /\ pc' = "raised"
    /\ results' = <<>>
    /\ hit_seq_records' = <<>>
    /\ partitions' = EmptyPartitions
    /\ rec_hits' = <<>>
    /\ calls' = <<>>
    /\ UNCHANGED <<config, fi, di, blast_handle, written, opened,
                   open_handles, nhsps, nrecs>>

\* for database_name, blast_out in databases.items():
\*     if (not os.path.exists(blast_out)): raise Exception(...)
\*     self._handle_blast_hit(...)      -- up to blast_handle = open(blast_file)
\* open(blast_file) raises when the path exists and cannot be opened (a
\* directory, no permission): nothing is opened then.
NextDatabase ==
    /\ pc = "db"
    /\ di < Len(dbs)
    /\ \E exists, opens \in BOOLEAN :
        /\ absent' = IF exists THEN absent ELSE <<fi, di + 1>>
        /\ IF BlastOutMissing(exists) \/ ~opens
           THEN Propagate
           ELSE /\ di' = di + 1
                /\ blast_handle' = "open"
                /\ open_handles' = open_handles + 1
                /\ opened' = Append(opened, <<fi, di + 1>>)
                /\ pc' = "records"
                /\ UNCHANGED <<config, fi, results, hit_seq_records, partitions,
                               written, rec_hits, calls, nhsps, nrecs>>

\* if hit_seq_records: Bio.SeqIO.write(hit_seq_records, out_file, 'fasta')
WriteHits ==
    /\ pc = "db"
    /\ di = Len(dbs)
    /\ written' = IF hit_seq_records # <<>>
                  THEN Append(written, [file |-> files[fi],
                                        out_file |-> GetOutFileName(files[fi]),
                                        records |-> hit_seq_records])
                  ELSE written
    /\ pc' = "file"
    /\ UNCHANGED <<config, fi, di, results, hit_seq_records, partitions,
                   blast_handle, rec_hits, calls, opened, absent, open_handles,
                   nhsps, nrecs>>

(* ----------------------------------------------------- _handle_blast_hit *)

\* for blast_record in blast_records: partitions = BlastHitPartitions()
NextRecordKeepPartitions ==
    /\ pc \in {"records", "emitted"}
    /\ nrecs < MaxRecords
    /\ nrecs' = nrecs + 1
    /\ rec_hits' = <<>>
    /\ calls' = <<>>
    /\ pc' = "hsps"
    /\ UNCHANGED <<config, fi, di, results, hit_seq_records, partitions, blast_handle,
                   written, opened, absent, open_handles, nhsps>>

NextRecord ==
    /\ pc \in {"records", "emitted"}
    /\ nrecs < MaxRecords
    /\ nrecs' = nrecs + 1
    /\ partitions' = EmptyPartitions
    /\ rec_hits' = <<>>
    /\ calls' = <<>>
    /\ pc' = "hsps"
    /\ UNCHANGED <<config, fi, di, results, hit_seq_records, blast_handle,
                   written, opened, absent, open_handles, nhsps>>

\* for alignment in blast_record.alignments: for hsp in alignment.hsps:
\*     hit = self._create_hit(...); if ...: partitions.append(hit)
HandleHsp ==
    /\ pc = "hsps"
    /\ nhsps < MaxHsps
    /\ \E raw \in hsp_space :
        LET hit == CreateHit(nhsps + 1, files[fi], dbs[di], raw)
        IN  /\ rec_hits' = Append(rec_hits, hit)
            /\ partitions' = IF PassesThresholds(hit, pid_threshold, plength_threshold)
                             THEN PartitionsAppend(partitions, hit)
                             ELSE partitions
    /\ nhsps' = nhsps + 1
    /\ UNCHANGED <<config, pc, fi, di, results, hit_seq_records, blast_handle,
                   written, calls, opened, absent, open_handles, nrecs>>

\* An emission that puts the new rows in front of the rows already there.
EmitClustersInFront ==
    /\ pc = "hsps"
    /\ LET hs == Emission(GetHitsNonoverlappingRegions(partitions), report_all)
       IN  /\ calls' = hs
           /\ results' = Rows(hs, dbs[di]) \o results
           /\ hit_seq_records' = hit_seq_records \o SeqRecords(hs)
    /\ \E shared \in BOOLEAN : partitions' = PartitionsAfterSort(partitions, shared)
    /\ pc' = "emitted"
    /\ UNCHANGED <<config, fi, di, blast_handle, written, rec_hits,
                   opened, absent, open_handles, nhsps, nrecs>>

\* for hits_non_overlapping in partitions.get_hits_nonoverlapping_regions():
\*     sort; self._append_results_to(hit, database_name, results, hit_seq_records)
EmitClusters ==
    /\ pc = "hsps"
    /\ LET hs == Emission(GetHitsNonoverlappingRegions(partitions), report_all)
       IN  /\ calls' = hs
           /\ results' = results \o Rows(hs, dbs[di])
           /\ hit_seq_records' = hit_seq_records \o SeqRecords(hs)
    /\ \E shared \in BOOLEAN : partitions' = PartitionsAfterSort(partitions, shared)
    /\ pc' = "emitted"
    /\ UNCHANGED <<config, fi, di, blast_handle, written, rec_hits,
                   opened, absent, open_handles, nhsps, nrecs>>

\* blast_handle.close(), and _handle_blast_hit returns: its locals are gone
CloseBlast ==
    /\ pc \in {"records", "emitted"}
    /\ blast_handle' = "closed"
    /\ open_handles' = open_handles - 1
    /\ partitions' = EmptyPartitions
    /\ rec_hits' = <<>>
    /\ calls' = <<>>
    /\ pc' = "db"
    /\ UNCHANGED <<config, fi, di, results, hit_seq_records,
                   written, opened, absent, nhsps, nrecs>>

\* NCBIXML.parse raises on a malformed record, or _create_hit raises.
RaiseInParse ==
    /\ pc \in {"records", "emitted", "hsps"}
    /\ Propagate
    /\ UNCHANGED absent

\* _append_results_to raises for one of the hits handed to it.
RaiseInAppend ==
    /\ pc = "hsps"
    /\ Emission(GetHitsNonoverlappingRegions(partitions), report_all) # <<>>
    /\ Propagate
    /\ UNCHANGED absent

Next ==
    \/ NextFile
    \/ ReturnDataFrame
    \/ NextDatabase
    \/ WriteHits
    \/ NextRecord
    \/ HandleHsp
    \/ EmitClusters
    \/ CloseBlast
    \/ RaiseInParse
    \/ RaiseInAppend

Spec == Init /\ [][Next]_vars

(* ------------------------------------------------------------ Search.run *)

\* args.files: for every file named on the command line, whether it exists.
FileLists == UNION {[1..n -> BOOLEAN] : n \in 0..MaxFiles}

\* PointfinderBlastDatabase.get_available_organisms()
AvailableOrganisms == {"salmonella"}

\* The command lines Search.run is given.
SearchArgs ==
    [files : FileLists,
     database_isdir : BOOLEAN,
     handler_error : BOOLEAN,
     pointfinder_organism : {None, "salmonella", "unsupported"},
     output_dir : {None, "new_dir", "existing_dir"},
     output_summary : {None, "summary.out"},
     output_resfinder : {None, "resfinder.out"},
     output_pointfinder : {None, "pointfinder.out"},
     output_settings : {None, "settings.out"},
     output_excel : {None, "excel.out"}]

\* path.exists(args.output_dir)
PathExists(p) == p = "existing_dir"

\* path.join(args.output_dir, name)
PathJoin(dir, name) == dir \o "/" \o name

\* len(args.files) == 0, or a file with not path.exists(file)
FilesMissing(fs) == fs = <<>> \/ \E i \in DOMAIN fs : ~fs[i]

\* args.pointfinder_organism and
\* args.pointfinder_organism not in PointfinderBlastDatabase.get_available_organisms()
OrganismUnsupported(org) == org # None /\ org \notin AvailableOrganisms

\* args.output_summary or args.output_resfinder or args.output_pointfinder
\* or args.output_excel
UseOutputFiles(a) ==
    \/ a.output_summary # None
    \/ a.output_resfinder # None
    \/ a.output_pointfinder # None
    \/ a.output_excel # None

\* The parser is not running.
ParserIdle ==
    /\ files = <<>>
    /\ dbs = <<>>
    /\ hsp_space = {}
    /\ pid_threshold = 98
    /\ plength_threshold = 60
    /\ report_all = FALSE
    /\ output_dir = None
    /\ pc = "idle"
    /\ fi = 0
    /\ di = 0
    /\ results = <<>>
    /\ hit_seq_records = <<>>
    /\ partitions = EmptyPartitions
    /\ blast_handle = "unopened"
    /\ written = <<>>
    /\ rec_hits = <<>>
    /\ calls = <<>>
    /\ opened = <<>>
    /\ absent = None
    /\ open_handles = 0
    /\ nhsps = 0
    /\ nrecs = 0

\* run(args) is entered.
SearchInit ==
    /\ ParserIdle
    /\ s_args \in SearchArgs
    /\ s_pc = "check_files"
    /\ s_out = NoOutputs
    /\ s_dirs = {}
    /\ s_detect = "none"
    /\ s_settings = FALSE
    /\ s_written = {}
    /\ s_error = None

\* raise CommandParseException(...)
RaiseCommandParseException ==
    /\ s_pc' = "raised"
    /\ s_error' = "CommandParseException"
    /\ UNCHANGED <<s_args, s_out, s_dirs, s_detect, s_settings, s_written>>

\* if (len(args.files) == 0): raise ...; for file in args.files: ...
CheckFiles ==
    /\ s_pc = "check_files"
    /\ IF FilesMissing(s_args.files)
       THEN RaiseCommandParseException
       ELSE /\ s_pc' = "check_database"
            /\ UNCHANGED <<s_args, s_out, s_dirs, s_detect, s_settings, s_written, s_error>>
    /\ UNCHANGED pvars

\* if not path.isdir(args.database): raise ...
CheckDatabase ==
    /\ s_pc = "check_database"
    /\ IF ~s_args.database_isdir
       THEN RaiseCommandParseException
       ELSE /\ s_pc' = "check_handler"
            /\ UNCHANGED <<s_args, s_out, s_dirs, s_detect, s_settings, s_written, s_error>>
    /\ UNCHANGED pvars

\* database_handler = ...; if database_handler.is_error(): raise ...
CheckHandler ==
    /\ s_pc = "check_handler"
    /\ IF s_args.handler_error
       THEN RaiseCommandParseException
       ELSE /\ s_pc' = "check_organism"
            /\ UNCHANGED <<s_args, s_out, s_dirs, s_detect, s_settings, s_written, s_error>>
    /\ UNCHANGED pvars

\* if (args.pointfinder_organism): if ... not in ...: raise ...
CheckOrganism ==
    /\ s_pc = "check_organism"
    /\ IF OrganismUnsupported(s_args.pointfinder_organism)
       THEN RaiseCommandParseException
       ELSE /\ s_pc' = "setup_output"
            /\ UNCHANGED <<s_args, s_out, s_dirs, s_detect, s_settings, s_written, s_error>>
    /\ UNCHANGED pvars

\* The locals when --output-dir is given.
OutputsInDir(dir) ==
    [to_stdout |-> FALSE,
     hits_output_dir |-> PathJoin(dir, "hits"),
     output_summary |-> PathJoin(dir, "summary.tsv"),
     output_resfinder |-> PathJoin(dir, "resfinder.tsv"),
     output_pointfinder |-> PathJoin(dir, "pointfinder.tsv"),
     output_excel |-> PathJoin(dir, "results.xlsx"),
     output_settings |-> PathJoin(dir, "settings.txt")]

\* The locals when some --output-[type] is given.
OutputsFromArgs(a) ==
    [to_stdout |-> FALSE,
     hits_output_dir |-> None,
     output_summary |-> a.output_summary,
     output_resfinder |-> a.output_resfinder,
     output_pointfinder |-> a.output_pointfinder,
     output_excel |-> a.output_excel,
     output_settings |-> a.output_settings]

\* SetupOutput with mkdir(args.output_dir) ahead of the path.exists test.
SetupOutputMkdirFirst ==
    /\ s_pc = "setup_output"
    /\ IF s_args.output_dir # None
       THEN /\ s_dirs' = s_dirs \cup {s_args.output_dir,
                                      PathJoin(s_args.output_dir, "hits")}
            /\ IF PathExists(s_args.output_dir)
               THEN /\ s_pc' = "raised"
                    /\ s_error' = "CommandParseException"
                    /\ UNCHANGED s_out
               ELSE /\ s_out' = OutputsInDir(s_args.output_dir)
                    /\ s_pc' = "detect"
                    /\ UNCHANGED s_error
            /\ UNCHANGED <<s_args, s_detect, s_settings, s_written>>
       ELSE /\ s_out' = IF UseOutputFiles(s_args)
                        THEN OutputsFromArgs(s_args)
                        ELSE [NoOutputs EXCEPT !.to_stdout = TRUE]
            /\ s_pc' = "detect"
            /\ UNCHANGED <<s_args, s_dirs, s_detect, s_settings, s_written, s_error>>
    /\ UNCHANGED pvars

\* if args.output_dir: ... elif args.output_summary or ...: ... else: to_stdout = True
SetupOutput ==
    /\ s_pc = "setup_output"
    /\ IF s_args.output_dir # None
       THEN IF PathExists(s_args.output_dir)
            THEN RaiseCommandParseException
            ELSE /\ s_dirs' = s_dirs \cup {s_args.output_dir,
                                           PathJoin(s_args.output_dir, "hits")}
                 /\ s_out' = OutputsInDir(s_args.output_dir)
                 /\ s_pc' = "detect"
                 /\ UNCHANGED <<s_args, s_detect, s_settings, s_written, s_error>>
       ELSE /\ s_out' = IF UseOutputFiles(s_args)
                        THEN OutputsFromArgs(s_args)
                        ELSE [NoOutputs EXCEPT !.to_stdout = TRUE]
            /\ s_pc' = "detect"
            /\ UNCHANGED <<s_args, s_dirs, s_detect, s_settings, s_written, s_error>>
    /\ UNCHANGED pvars

\* with tempfile.TemporaryDirectory() as blast_out: ...
\*     amr_detection.run_amr_detection(...)     -- entered
StartDetection ==
    /\ s_pc = "detect"
    /\ s_dirs' = s_dirs \cup {"blast_out"}
    /\ s_detect' = "started"
    /\ s_pc' = "detecting"
    /\ UNCHANGED <<s_args, s_out, s_settings, s_written, s_error>>
    /\ UNCHANGED pvars

\* run_amr_detection returns
DetectionReturns ==
    /\ s_pc = "detecting"
    /\ s_detect' = "finished"
    /\ s_pc' = IF s_out.to_stdout THEN "out_stdout" ELSE "out_resfinder"
    /\ UNCHANGED <<s_args, s_out, s_dirs, s_settings, s_written, s_error>>
    /\ UNCHANGED pvars

\* run_amr_detection raises: the with block removes blast_out
DetectionRaises ==
    /\ s_pc = "detecting"
    /\ s_dirs' = s_dirs \ {"blast_out"}
    /\ s_error' = "DetectionError"
    /\ s_pc' = "raised"
    /\ UNCHANGED <<s_args, s_out, s_detect, s_settings, s_written>>
    /\ UNCHANGED pvars

\* if to_stdout: self._print_dataframe_to_text_file_handle(..., sys.stdout)
WriteStdout ==
    /\ s_pc = "out_stdout"
    /\ s_written' = s_written \cup {"stdout"}
    /\ s_dirs' = s_dirs \ {"blast_out"}
    /\ s_pc' = "done"
    /\ UNCHANGED <<s_args, s_out, s_detect, s_settings, s_error>>
    /\ UNCHANGED pvars

\* if output_resfinder: with open(output_resfinder, 'w') as fh: ...
WriteResfinder ==
    /\ s_pc = "out_resfinder"
    /\ s_written' = IF s_out.output_resfinder # None
                    THEN s_written \cup {s_out.output_resfinder}
                    ELSE s_written
    /\ s_pc' = "out_pointfinder"
    /\ UNCHANGED <<s_args, s_out, s_dirs, s_detect, s_settings, s_error>>
    /\ UNCHANGED pvars

\* if args.pointfinder_organism and output_pointfinder: ...
WritePointfinder ==
    /\ s_pc = "out_pointfinder"
    /\ s_written' = IF s_args.pointfinder_organism # None /\ s_out.output_pointfinder # None
                    THEN s_written \cup {s_out.output_pointfinder}
                    ELSE s_written
    /\ s_pc' = "out_summary"
    /\ UNCHANGED <<s_args, s_out, s_dirs, s_detect, s_settings, s_error>>
    /\ UNCHANGED pvars

\* if output_summary: ...
WriteSummary ==
    /\ s_pc = "out_summary"
    /\ s_written' = IF s_out.output_summary # None
                    THEN s_written \cup {s_out.output_summary}
                    ELSE s_written
    /\ s_pc' = "out_settings"
    /\ UNCHANGED <<s_args, s_out, s_dirs, s_detect, s_settings, s_error>>
    /\ UNCHANGED pvars

\* if output_settings: settings = database_handler.info(); ...
\*     self._print_settings_to_file(settings, output_settings)
WriteSettings ==
    /\ s_pc = "out_settings"
    /\ IF s_out.output_settings # None
       THEN /\ s_settings' = TRUE
            /\ s_written' = s_written \cup {s_out.output_settings}
       ELSE UNCHANGED <<s_settings, s_written>>
    /\ s_pc' = "out_excel"
    /\ UNCHANGED <<s_args, s_out, s_dirs, s_detect, s_error>>
    /\ UNCHANGED pvars

\* if output_excel: settings_dataframe = pd.DataFrame(settings, ...); ...
\* Reading `settings' when line 299 did not bind it raises UnboundLocalError.
WriteExcel ==
    /\ s_pc = "out_excel"
    /\ IF s_out.output_excel # None /\ ~s_settings
       THEN /\ s_error' = "UnboundLocalError"
            /\ s_pc' = "raised"
            /\ UNCHANGED s_written
       ELSE /\ s_written' = IF s_out.output_excel # None
                            THEN s_written \cup {s_out.output_excel}
                            ELSE s_written
            /\ s_pc' = "done"
            /\ UNCHANGED s_error
    /\ s_dirs' = s_dirs \ {"blast_out"}
    /\ UNCHANGED <<s_args, s_out, s_detect, s_settings>>
    /\ UNCHANGED pvars

SearchNext ==
    \/ CheckFiles
    \/ CheckDatabase
    \/ CheckHandler
    \/ CheckOrganism
    \/ SetupOutput
    \/ StartDetection
    \/ DetectionReturns
    \/ DetectionRaises
    \/ WriteStdout
    \/ WriteResfinder
    \/ WritePointfinder
    \/ WriteSummary
    \/ WriteSettings
    \/ WriteExcel

SpecSearch == SearchInit /\ [][SearchNext]_vars

(* ------------------------------------------------- vocabulary of claims *)

Range(s) == {s[i] : i \in DOMAIN s}

Ids(S) == {h.id : h \in S}

\* The hits held by the partitioner.
ClusterHits == UNION {Range(partitions[i].hits) : i \in DOMAIN partitions}

StrictlyAbove(h) == h.pid > pid_threshold /\ h.plength > plength_threshold

PassingRecHits == {h \in Range(rec_hits) : StrictlyAbove(h)}

FailingRecHits == {h \in Range(rec_hits) : ~StrictlyAbove(h)}

SameCluster(h1, h2) ==
    \E i \in DOMAIN partitions :
        h1 \in Range(partitions[i].hits) /\ h2 \in Range(partitions[i].hits)

\* Closed query intervals of the same contig that intersect.
IntervalsOverlap(h1, h2) ==
    h1.contig = h2.contig /\ h1.start <= h2.end /\ h2.start <= h1.end

RECURSIVE Reach(_, _)
Reach(S, R) ==
    LET R2 == R \cup {h \in S : \E g \in R : IntervalsOverlap(g, h)}
    IN  IF R2 = R THEN R ELSE Reach(S, R2)

\* h2 is linked to h1 by a chain of overlapping hits of S.
Chained(S, h1, h2) == h2 \in Reach(S, {h1})

LexGreater(a, b) ==
    \/ a.alen > b.alen
    \/ a.alen = b.alen /\ a.pid > b.pid
    \/ a.alen = b.alen /\ a.pid = b.pid /\ a.plength > b.plength

\* Rows of results that come from hits of the set S.
RowsFrom(S) == {i \in DOMAIN results : results[i].hit_id \in Ids(S)}

(* -------------------------------------------------------------- claims *)

\* C1: a hit is in the partitioner, and a row is in the results, only if its
\* percent identity is strictly greater than the pid threshold and its percent
\* length strictly greater than the plength threshold; a hit at exactly a
\* threshold is not in the partitioner.
C1_StrictThresholdFilter ==
    /\ \A h \in ClusterHits : h.pid > pid_threshold /\ h.plength > plength_threshold
    /\ \A h \in Range(calls) : h.pid > pid_threshold /\ h.plength > plength_threshold
    /\ \A i \in DOMAIN results :
        results[i].pid > pid_threshold /\ results[i].plength > plength_threshold
    /\ \A h \in Range(rec_hits) :
        (h.pid = pid_threshold \/ h.plength = plength_threshold) => h \notin ClusterHits

\* A hit at exactly the pid threshold, and one at exactly the plength
\* threshold, were read and left out, while a hit above both was kept.
C1_Witness ==
    /\ \E h \in Range(rec_hits) :
        h.pid = pid_threshold /\ h.plength > plength_threshold /\ h \notin ClusterHits
    /\ \E h \in Range(rec_hits) :
        h.pid > pid_threshold /\ h.plength = plength_threshold /\ h \notin ClusterHits
    /\ \E h \in Range(rec_hits) : h \in ClusterHits

\* C2: in best-hit mode, once a record's clusters are emitted, every cluster
\* has exactly one hit passed to _append_results_to, no hit of the cluster has
\* a strictly greater (alignment length, pid, plength) key, and per contig the
\* rows of the record never outnumber the clusters.
C2_BestHitPerCluster ==
    ~report_all =>
        /\ pc = "emitted" =>
            /\ Len(calls) = Len(partitions)
            /\ \A i \in DOMAIN partitions :
                /\ Cardinality({j \in DOMAIN calls :
                                    calls[j] \in Range(partitions[i].hits)}) = 1
                /\ \A j \in DOMAIN calls :
                    calls[j] \in Range(partitions[i].hits) =>
                        \A h \in Range(partitions[i].hits) : ~LexGreater(h, calls[j])
            /\ Cardinality(RowsFrom(Range(rec_hits))) = Len(partitions)
        /\ \A c \in Contigs :
            Cardinality({i \in RowsFrom(Range(rec_hits)) : results[i].contig = c})
                <= Cardinality({i \in DOMAIN partitions : partitions[i].contig = c})

\* A cluster of three hits whose first is not the best, emitted in best-hit mode.
C2_Witness ==
    /\ ~report_all
    /\ pc = "emitted"
    /\ Len(rec_hits) = 3
    /\ \E i \in DOMAIN partitions :
        /\ Range(partitions[i].hits) = Range(rec_hits)
        /\ Len(partitions[i].hits) = 3
        /\ LexGreater(rec_hits[2], rec_hits[1])
        /\ LexGreater(rec_hits[3], rec_hits[2])
        /\ rec_hits[3].alen = rec_hits[2].alen
        /\ calls = <<rec_hits[3]>>

\* C3: in report-all mode, once a record's clusters are emitted, every hit of
\* every cluster was passed to _append_results_to exactly once, the hits of a
\* cluster in non-increasing key order, and the rows of a cluster are as many
\* as its threshold-passing hits.
C3_ReportAllSorted ==
    (report_all /\ pc = "emitted") =>
        /\ \A h \in ClusterHits : Cardinality({j \in DOMAIN calls : calls[j] = h}) = 1
        /\ Range(calls) = ClusterHits
        /\ \A j, k \in DOMAIN calls :
            (j < k /\ SameCluster(calls[j], calls[k])) => ~LexGreater(calls[k], calls[j])
        /\ \A i \in DOMAIN partitions :
            /\ Cardinality(RowsFrom(Range(partitions[i].hits)))
                    = Cardinality({h \in PassingRecHits :
                                        h \in Range(partitions[i].hits)})
            /\ Cardinality(RowsFrom(Range(partitions[i].hits))) = Len(partitions[i].hits)

\* A cluster of three hits appended in ascending key order, emitted in
\* report-all mode.
C3_Witness ==
    /\ report_all
    /\ pc = "emitted"
    /\ Len(rec_hits) = 3
    /\ \E i \in DOMAIN partitions :
        /\ Range(partitions[i].hits) = Range(rec_hits)
        /\ Len(partitions[i].hits) = 3
        /\ LexGreater(rec_hits[2], rec_hits[1])
        /\ LexGreater(rec_hits[3], rec_hits[2])
        /\ calls = <<rec_hits[3], rec_hits[2], rec_hits[1]>>

\* The two hits of the end-to-end scenario.
IsScenarioPair(S) ==
    /\ Cardinality(S) = 2
    /\ \E a, b \in S :
        /\ a.contig = b.contig
        /\ a.start = 10 /\ a.end = 100 /\ a.alen = 90
        /\ b.start = 50 /\ b.end = 150 /\ b.alen = 100

\* C4: the clusters are the connected components of the overlap relation on
\* the threshold-passing hits of the record, whatever their order: every
\* passing hit is in exactly one cluster, and two passing hits share a cluster
\* exactly when a chain of overlapping passing hits links them.  Hits at
\* [10,100] (length 90) and [50,150] (length 100) form one cluster, and
\* best-hit mode reports the [50,150] hit alone.
C4_ClustersAreComponents ==
    /\ ClusterHits = PassingRecHits
    /\ \A h \in PassingRecHits :
        Cardinality({i \in DOMAIN partitions : h \in Range(partitions[i].hits)}) = 1
    /\ \A i \in DOMAIN partitions : partitions[i].hits # <<>>
    /\ \A h1 \in PassingRecHits :
        LET component == Reach(PassingRecHits, {h1})
        IN  \A h2 \in PassingRecHits : SameCluster(h1, h2) <=> h2 \in component
    /\ IsScenarioPair(PassingRecHits) =>
        /\ Len(partitions) = 1
        /\ (pc = "emitted" /\ ~report_all) =>
            /\ Len(calls) = 1
            /\ calls[1].start = 50 /\ calls[1].end = 150

\* Three passing hits, the first two disjoint and the third overlapping both,
\* end up in one cluster.
C4_Witness ==
    /\ Len(rec_hits) = 3
    /\ PassingRecHits = Range(rec_hits)
    /\ ~IntervalsOverlap(rec_hits[1], rec_hits[2])
    /\ IntervalsOverlap(rec_hits[1], rec_hits[3])
    /\ IntervalsOverlap(rec_hits[2], rec_hits[3])
    /\ Len(partitions) = 1
    /\ pc = "emitted"

\* C5: a hit that fails a threshold is in no cluster; two passing hits that
\* no chain of passing hits links are in different clusters even when a
\* failing hit overlaps both; and in best-hit mode every passing hit has a
\* passing hit of its own cluster reported, whatever failing hits overlap it.
C5_FilterBeforeClustering ==
    /\ \A f \in FailingRecHits : f \notin ClusterHits /\ f \notin Range(calls)
    /\ \A f \in FailingRecHits : \A h1, h2 \in PassingRecHits :
        (/\ IntervalsOverlap(f, h1)
         /\ IntervalsOverlap(f, h2)
         /\ ~Chained(PassingRecHits, h1, h2)) => ~SameCluster(h1, h2)
    /\ (pc = "emitted" /\ ~report_all) =>
        \A h \in PassingRecHits :
            \E j \in DOMAIN calls :
                /\ calls[j] \in PassingRecHits
                /\ Chained(PassingRecHits, h, calls[j])
                /\ results[Len(results) - Len(calls) + j].hit_id = calls[j].id

\* A failing hit with the greatest alignment length overlaps two disjoint
\* passing hits, and best-hit mode reports both passing hits.
C5_Witness ==
    /\ pc = "emitted"
    /\ ~report_all
    /\ \E f \in FailingRecHits : \E h1, h2 \in PassingRecHits :
        /\ IntervalsOverlap(f, h1) /\ IntervalsOverlap(f, h2)
        /\ ~IntervalsOverlap(h1, h2)
        /\ f.alen > h1.alen /\ f.alen > h2.alen
        /\ Range(calls) = {h1, h2}

\* C6: a cluster holds hits of one input file, one database and one contig,
\* all of them hits of the current record of the current (file, database)
\* pair; so do the hits competing in one selection.
C6_ClustersNeverMixGroups ==
    /\ ClusterHits \subseteq Range(rec_hits)
    /\ Range(calls) \subseteq Range(rec_hits)
    /\ \A h \in ClusterHits : fi >= 1 /\ di >= 1 /\ h.file = files[fi] /\ h.db = dbs[di]
    /\ \A h1, h2 \in ClusterHits :
        SameCluster(h1, h2) =>
            h1.file = h2.file /\ h1.db = h2.db /\ h1.contig = h2.contig

\* Hits on the same query interval were each reported in best-hit mode: two
\* of different contigs of one record, and one of the same contig in another
\* database.
C6_Witness ==
    /\ ~report_all
    /\ \E i, j, k \in DOMAIN results :
        /\ results[i].start = results[j].start /\ results[i].end = results[j].end
        /\ results[i].contig # results[j].contig
        /\ results[i].database = results[j].database
        /\ results[i].isolate = results[j].isolate
        /\ results[k].contig = results[i].contig
        /\ results[k].start = results[i].start
        /\ results[k].database # results[i].database
    /\ Len(partitions) = 1

\* The databases of the k-th file were all processed and its write step is done.
FileCompleted(k) == k < fi \/ (k = fi /\ pc \in {"file", "done"})

WritesFor(k) == {i \in DOMAIN written : written[i].file = files[k]}

\* The sequence records collected for the k-th file: one per row of the file.
RowsOfFile(k) == SelectSeq(results, LAMBDA r : r.isolate = files[k])

\* C7: for every input file whose databases were all processed, an artifact is
\* written exactly when at least one sequence record was collected for it; a
\* file has at most one artifact, written only after all its databases, holding
\* the records of that file and no others; a file without qualifying hits has
\* none.
C7_ArtifactIffRecords ==
    \A k \in DOMAIN files :
        /\ Cardinality(WritesFor(k)) <= 1
        /\ WritesFor(k) # {} => FileCompleted(k)
        /\ (FileCompleted(k) /\ pc # "raised") =>
                (WritesFor(k) # {} <=> RowsOfFile(k) # <<>>)
        /\ \A i \in WritesFor(k) :
            /\ written[i].records # <<>>
            /\ \A j \in DOMAIN written[i].records :
                written[i].records[j].isolate = files[k]
            /\ pc # "raised" =>
                [j \in DOMAIN written[i].records |-> written[i].records[j].id]
                    = [j \in DOMAIN RowsOfFile(k) |-> RowsOfFile(k)[j].hit_id]

\* Both files were parsed to the end; the first had a qualifying hit and got
\* its artifact, the second had only a hit below the threshold and got none.
C7_Witness ==
    /\ pc = "done"
    /\ Len(files) = 2
    /\ WritesFor(1) # {}
    /\ WritesFor(2) = {}
    /\ nhsps >= 2
    /\ Len(results) = 1

\* Pairs in processing order: file first, then database.
PairBefore(a, b) == a[1] < b[1] \/ (a[1] = b[1] /\ a[2] < b[2])

FileIndex(f) == CHOOSE k \in DOMAIN files : files[k] = f

\* C8 as stated: once an alignment result is found absent, parse_results has
\* failed, no later pair is processed, and the invocation has written no
\* sequence artifact at all.
C8_AbortWritesNothing ==
    absent # None =>
        /\ pc = "raised"
        /\ \A i \in DOMAIN opened : PairBefore(opened[i], absent)
        /\ written = <<>>

\* C8 amended: once an alignment result is found absent, parse_results has
\* failed without returning a table, only pairs before the absent one were
\* processed, and the only artifacts written are those of earlier input files.
C8_AbortOnAbsentResult ==
    absent # None =>
        /\ pc = "raised"
        /\ \A i \in DOMAIN opened : PairBefore(opened[i], absent)
        /\ \A i \in DOMAIN written : FileIndex(written[i].file) < absent[1]
        /\ WritesFor(absent[1]) = {}

\* The result of the second file is absent after the first file's artifact
\* was written.
C8_Witness ==
    /\ absent # None
    /\ absent[1] = 2
    /\ pc = "raised"
    /\ Len(written) = 1
    /\ written[1].file = files[1]

\* C9: whenever _handle_blast_hit is not running, whether it returned or
\* raised, no alignment-result handle it opened is still open.
C9_HandleReleasedOnEveryPath ==
    pc \in {"file", "db", "done", "raised"} => open_handles = 0

\* C10: with output_dir unset, parse_results writes no sequence artifact.
C10_NoArtifactWithoutOutputDir ==
    output_dir = None => written = <<>>

IsPrefix(s, t) == Len(s) <= Len(t) /\ SubSeq(t, 1, Len(s)) = s

DbIndex(d) == CHOOSE k \in DOMAIN dbs : dbs[k] = d

\* Rows sorted by input file, then by database, in iteration order.
RowsInFileDatabaseOrder(rows) ==
    \A i, j \in DOMAIN rows :
        i < j =>
            \/ FileIndex(rows[i].isolate) < FileIndex(rows[j].isolate)
            \/ /\ rows[i].isolate = rows[j].isolate
               /\ DbIndex(rows[i].database) <= DbIndex(rows[j].database)

\* The index of the cluster of the current record that holds the hit of a row.
ClusterIndexOf(row) ==
    CHOOSE i \in DOMAIN partitions : row.hit_id \in Ids(Range(partitions[i].hits))

\* C11: while parse_results runs, every step leaves the rows already in
\* results in place and appends after them; rows are ordered by input file,
\* then by database; the rows a record adds follow the order of its clusters
\* and, within a cluster, are in non-increasing key order.
C11_RowsInProcessingOrder ==
    [][pc' # "raised" =>
        /\ IsPrefix(results, results')
        /\ RowsInFileDatabaseOrder(results')
        /\ \A j, k \in (Len(results) + 1)..Len(results') :
            j < k =>
                /\ results'[j].isolate = files[fi] /\ results'[j].database = dbs[di]
                /\ ClusterIndexOf(results'[j]) <= ClusterIndexOf(results'[k])
                /\ ClusterIndexOf(results'[j]) = ClusterIndexOf(results'[k]) =>
                        ~LexGreater(results'[k], results'[j])]_vars

\* A parse in report-all mode returned three rows: two of one cluster of the
\* first file, then one of the second file.
C11_Witness ==
    /\ pc = "done"
    /\ report_all
    /\ Len(files) = 2
    /\ Len(results) = 3
    /\ results[1].isolate = files[1] /\ results[2].isolate = files[1]
    /\ results[1].contig = results[2].contig
    /\ results[3].isolate = files[2]

(* ------------------------------------------------------------------- C12 *)

\* The --output-[type] files the command line names, pointfinder aside.
NamedOutputs(a) ==
    {a.output_summary, a.output_resfinder, a.output_settings, a.output_excel} \ {None}

\* run(args) has ended, by returning or by raising.
RunEnded == s_pc \in {"done", "raised"}

\* C12: without --output-dir and with detection succeeding, run completes
\* without error and has written every file named by --output-summary,
\* --output-resfinder, --output-settings or --output-excel, whichever subset of
\* the four is given.
C12_NamedOutputsAllWritten ==
    (RunEnded /\ s_args.output_dir = None /\ s_detect = "finished") =>
        /\ s_pc = "done"
        /\ s_error = None
        /\ NamedOutputs(s_args) \subseteq s_written

(* ------------------------------------------------------------------- C13 *)

\* One of the five conditions run(args) validates does not hold.
InvalidArgs(a) ==
    \/ \E i \in DOMAIN a.files : ~a.files[i]
    \/ ~a.database_isdir
    \/ a.handler_error
    \/ a.pointfinder_organism \notin AvailableOrganisms \cup {None}
    \/ a.output_dir # None /\ PathExists(a.output_dir)

NoSideEffect == s_dirs = {} /\ s_detect = "none" /\ s_written = {}

Validating ==
    s_pc \in {"check_files", "check_database", "check_handler", "check_organism",
              "setup_output"}

\* C13: with a missing input file, a missing database directory, a database
\* handler in an error state, an unsupported pointfinder organism or an
\* existing --output-dir, run never gets past its validation: it ends only by
\* raising CommandParseException; and whenever CommandParseException is raised,
\* no directory has been created, detection has not been started and no output
\* file has been written.
C13_ValidationBeforeSideEffects ==
    /\ InvalidArgs(s_args) =>
            /\ Validating \/ (s_pc = "raised" /\ s_error = "CommandParseException")
            /\ NoSideEffect
    /\ s_error = "CommandParseException" => s_pc = "raised" /\ NoSideEffect

\* The last validation fails: everything else is valid, --output-dir exists.
C13_Witness ==
    /\ s_pc = "raised"
    /\ s_error = "CommandParseException"
    /\ s_args.output_dir # None
    /\ PathExists(s_args.output_dir)
    /\ ~FilesMissing(s_args.files)
    /\ s_args.database_isdir
    /\ ~s_args.handler_error
    /\ s_args.pointfinder_organism = "salmonella"

====
